---- MODULE Spec2Model ----
(***************************************************************************)
(* Model of structured_logprobs/main.py: the character-to-token indexer    *)
(* map_characters_to_token_indices, the sidecar adapters add_logprobs      *)
(* (ChatCompletion and ParsedResponse) and add_logprobs_inline.            *)
(*                                                                         *)
(* Text is a sequence of one-character strings.  Log-probabilities are     *)
(* integers (hundredths).  Python indices are kept 0-based as values;      *)
(* TLA+ sequences are 1-based, so character i lives at position i + 1.     *)
(***************************************************************************)
EXTENDS Integers, Sequences, FiniteSets

\* ------------------------------------------------------------------ bounds
MaxChoices == 2
MaxOutputs == 2
MaxBlocks == 2
MaxTokens == 3
MaxTokenLen == 2

\* ------------------------------------------------------- JSON value trees
Q == "\""
Digits == <<"0", "1", "2", "3", "4", "5", "6", "7", "8", "9">>
DigitSet == {Digits[d] : d \in 1..10}
DigitVal(ch) == (CHOOSE d \in 1..10 : Digits[d] = ch) - 1

\* A JSON value: t is the kind, s the text of a string, n the number (or
\* 0/1 for false/true), c the children [k |-> key, d |-> value] of a
\* container (k is <<>> in an array), start/end the span of a located leaf.
Node(t, s, n, c, start, end) ==
    [t |-> t, s |-> s, n |-> n, c |-> c, start |-> start, end |-> end]
JNull == Node("null", <<>>, 0, <<>>, 0, 0)
JBool(b) == Node("bool", <<>>, IF b THEN 1 ELSE 0, <<>>, 0, 0)
JNum(n) == Node("num", <<>>, n, <<>>, 0, 0)
JStr(s) == Node("str", s, 0, <<>>, 0, 0)
JArr(c) == Node("arr", <<>>, 0, c, 0, 0)
JObj(c) == Node("obj", <<>>, 0, c, 0, 0)
IsLeaf(v) == v.t \in {"null", "bool", "num", "str"}
At(v, start, end) == [v EXCEPT !.start = start, !.end = end]

Fail == [ok |-> FALSE, v |-> JNull, p |-> 0]
Ok(v, p) == [ok |-> TRUE, v |-> v, p |-> p]

\* --------------------------------------------- JSON text -> located tree
RECURSIVE SkipWs(_, _)
SkipWs(s, p) ==
    IF p <= Len(s) /\ s[p] = " " THEN SkipWs(s, p + 1) ELSE p

RECURSIVE DigitsEnd(_, _)
DigitsEnd(s, p) ==
    IF p <= Len(s) /\ s[p] \in DigitSet THEN DigitsEnd(s, p + 1) ELSE p

RECURSIVE NatOf(_, _, _)
NatOf(s, p, q) ==
    IF q < p THEN 0 ELSE 10 * NatOf(s, p, q - 1) + DigitVal(s[q])

Matches(s, p, lit) ==
    /\ p + Len(lit) - 1 <= Len(s)
    /\ SubSeq(s, p, p + Len(lit) - 1) = lit

ParseString(s, p) ==
    LET qs == {q \in (p + 1)..Len(s) : s[q] = Q}
    IN  IF qs = {} THEN Fail
        ELSE LET q == CHOOSE x \in qs : \A y \in qs : x <= y
             IN  Ok(At(JStr(SubSeq(s, p + 1, q - 1)), p - 1, q), q + 1)

ParseNumber(s, p) ==
    LET neg == s[p] = "-"
        d0 == IF neg THEN p + 1 ELSE p
        d1 == DigitsEnd(s, d0)
    IN  IF d1 = d0 THEN Fail
        ELSE LET m == NatOf(s, d0, d1 - 1)
             IN  Ok(At(JNum(IF neg THEN 0 - m ELSE m), p - 1, d1 - 1), d1)

RECURSIVE ParseValue(_, _), ParseMembers(_, _, _), ParseElems(_, _, _)
ParseValue(s, p0) ==
    LET p == SkipWs(s, p0)
    IN  IF p > Len(s) THEN Fail
        ELSE IF s[p] = "{" THEN
            LET p1 == SkipWs(s, p + 1)
            IN  IF p1 <= Len(s) /\ s[p1] = "}" THEN Ok(JObj(<<>>), p1 + 1)
                ELSE ParseMembers(s, p1, <<>>)
        ELSE IF s[p] = "[" THEN
            LET p1 == SkipWs(s, p + 1)
            IN  IF p1 <= Len(s) /\ s[p1] = "]" THEN Ok(JArr(<<>>), p1 + 1)
                ELSE ParseElems(s, p1, <<>>)
        ELSE IF s[p] = Q THEN ParseString(s, p)
        ELSE IF s[p] = "-" \/ s[p] \in DigitSet THEN ParseNumber(s, p)
        ELSE IF Matches(s, p, <<"t", "r", "u", "e">>)
            THEN Ok(At(JBool(TRUE), p - 1, p + 3), p + 4)
        ELSE IF Matches(s, p, <<"f", "a", "l", "s", "e">>)
            THEN Ok(At(JBool(FALSE), p - 1, p + 4), p + 5)
        ELSE IF Matches(s, p, <<"n", "u", "l", "l">>)
            THEN Ok(At(JNull, p - 1, p + 3), p + 4)
        ELSE Fail

ParseMembers(s, p0, acc) ==
    LET p == SkipWs(s, p0)
    IN  IF p > Len(s) \/ s[p] # Q THEN Fail
        ELSE LET key == ParseString(s, p)
             IN  IF ~key.ok THEN Fail
                 ELSE LET pc0 == SkipWs(s, key.p)
                      IN  IF pc0 > Len(s) \/ s[pc0] # ":" THEN Fail
                          ELSE LET val == ParseValue(s, pc0 + 1)
                               IN  IF ~val.ok THEN Fail
                                   ELSE LET pn == SkipWs(s, val.p)
                                            acc1 == Append(acc, [k |-> key.v.s, d |-> val.v])
                                        IN  IF pn > Len(s) THEN Fail
                                            ELSE IF s[pn] = "," THEN ParseMembers(s, pn + 1, acc1)
                                            ELSE IF s[pn] = "}" THEN Ok(JObj(acc1), pn + 1)
                                            ELSE Fail

ParseElems(s, p0, acc) ==
    LET val == ParseValue(s, p0)
    IN  IF ~val.ok THEN Fail
        ELSE LET pn == SkipWs(s, val.p)
                 acc1 == Append(acc, [k |-> <<>>, d |-> val.v])
             IN  IF pn > Len(s) THEN Fail
                 ELSE IF s[pn] = "," THEN ParseElems(s, pn + 1, acc1)
                 ELSE IF s[pn] = "]" THEN Ok(JArr(acc1), pn + 1)
                 ELSE Fail

\* The JSON Leaf Locator: the value tree of the whole text, every leaf
\* carrying its half-open 0-based span; ok is FALSE for malformed text.
LocateLeaves(s) ==
    LET r == ParseValue(s, 1)
    IN  IF r.ok /\ SkipWs(s, r.p) > Len(s) THEN r ELSE Fail

RECURSIVE Strip(_)
Strip(v) ==
    Node(v.t, v.s, v.n,
         [x \in 1..Len(v.c) |-> [k |-> v.c[x].k, d |-> Strip(v.c[x].d)]], 0, 0)

\* json.loads: the document without spans.
Loads(s) ==
    LET r == LocateLeaves(s)
    IN  [ok |-> r.ok, v |-> Strip(r.v)]

\* --------------------------------------------------- JSON tree -> text
RECURSIVE NatToChars(_)
NatToChars(n) ==
    IF n < 10 THEN <<Digits[n + 1]>>
    ELSE NatToChars(n \div 10) \o <<Digits[(n % 10) + 1]>>

IntToChars(n) == IF n < 0 THEN <<"-">> \o NatToChars(0 - n) ELSE NatToChars(n)

RECURSIVE Dumps(_), DumpsItems(_, _, _)
Dumps(v) ==
    CASE v.t = "null" -> <<"n", "u", "l", "l">>
      [] v.t = "bool" -> IF v.n = 1 THEN <<"t", "r", "u", "e">>
                         ELSE <<"f", "a", "l", "s", "e">>
      [] v.t = "num" -> IntToChars(v.n)
      [] v.t = "str" -> <<Q>> \o v.s \o <<Q>>
      [] v.t = "arr" -> <<"[">> \o DumpsItems(v.c, 1, FALSE) \o <<"]">>
      [] v.t = "obj" -> <<"{">> \o DumpsItems(v.c, 1, TRUE) \o <<"}">>

DumpsItems(c, x, keyed) ==
    IF x > Len(c) THEN <<>>
    ELSE (IF x > 1 THEN <<",", " ">> ELSE <<>>)
         \o (IF keyed THEN <<Q>> \o c[x].k \o <<Q, ":", " ">> ELSE <<>>)
         \o Dumps(c[x].d)
         \o DumpsItems(c, x + 1, keyed)

\* ------------------------------------------------------ Logprob Annotator
KValue == <<"v", "a", "l", "u", "e">>
KLogprob == <<"l", "o", "g", "p", "r", "o", "b">>
KTokenCount == <<"t", "o", "k", "e", "n", "_", "c", "o", "u", "n", "t">>

\* Distinct token indices referenced by token_indices[start:end] (a Python
\* slice: positions beyond the end of the list are dropped).
TokenSet(token_indices, start, end) ==
    {token_indices[q + 1] : q \in {x \in start..(end - 1) : x + 1 <= Len(token_indices)}}

RECURSIVE SumLogprobs(_, _, _)
SumLogprobs(tokens, S, k) ==
    IF k >= Len(tokens) THEN 0
    ELSE (IF k \in S THEN tokens[k + 1].logprob ELSE 0) + SumLogprobs(tokens, S, k + 1)

SidecarLeaf(v, tokens, token_indices) ==
    LET S == TokenSet(token_indices, v.start, v.end)
    IN  JObj(<<[k |-> KLogprob, d |-> JNum(SumLogprobs(tokens, S, 0))],
               [k |-> KTokenCount, d |-> JNum(Cardinality(S))]>>)

InlineLeaf(v, tokens, token_indices) ==
    LET S == TokenSet(token_indices, v.start, v.end)
    IN  JObj(<<[k |-> KValue, d |-> Strip(v)],
               [k |-> KLogprob, d |-> JNum(SumLogprobs(tokens, S, 0))]>>)

RECURSIVE Annotate(_, _, _, _)
Annotate(v, tokens, token_indices, inline) ==
    IF IsLeaf(v)
    THEN IF inline THEN InlineLeaf(v, tokens, token_indices)
         ELSE SidecarLeaf(v, tokens, token_indices)
    ELSE Node(v.t, v.s, v.n,
              [x \in 1..Len(v.c) |->
                  [k |-> v.c[x].k, d |-> Annotate(v.c[x].d, tokens, token_indices, inline)]],
              0, 0)

extract_json_data(extracted_data, logprobs_list, token_indices) ==
    LET r == LocateLeaves(extracted_data)
    IN  [ok |-> r.ok,
         v |-> IF r.ok THEN Annotate(r.v, logprobs_list, token_indices, FALSE) ELSE JNull]

extract_json_data_inline(extracted_data, logprobs_list, token_indices) ==
    LET r == LocateLeaves(extracted_data)
    IN  [ok |-> r.ok,
         v |-> IF r.ok THEN Annotate(r.v, logprobs_list, token_indices, TRUE) ELSE JNull]

\* A leaf record of the inline structure: an object {value, logprob} whose
\* value is a scalar.
IsLeafRecord(v) ==
    /\ v.t = "obj"
    /\ Len(v.c) = 2
    /\ v.c[1].k = KValue
    /\ v.c[2].k = KLogprob
    /\ IsLeaf(v.c[1].d)
    /\ v.c[2].d.t = "num"

\* The inline structure with every leaf record replaced by its value field.
RECURSIVE ProjectValues(_)
ProjectValues(v) ==
    IF IsLeafRecord(v) THEN v.c[1].d
    ELSE Node(v.t, v.s, v.n,
              [x \in 1..Len(v.c) |-> [k |-> v.c[x].k, d |-> ProjectValues(v.c[x].d)]],
              0, 0)

\* ------------------------------------------------------------ sample data
Token(text, logprob) == [token |-> text, logprob |-> logprob]

\* {"k": "v"}
TextKV == <<"{", Q, "k", Q, ":", " ", Q, "v", Q, "}">>
TokensKV ==
    <<Token(<<"{">>, -10), Token(<<Q, "k", Q>>, -20), Token(<<":", " ">>, -5),
      Token(<<Q, "v", Q>>, -30), Token(<<"}">>, -1)>>

\* "ab", with a zero-length token between the two halves
TextAB == <<Q, "a", "b", Q>>
TokensAB == <<Token(<<Q, "a">>, -1), Token(<<>>, -7), Token(<<"b", Q>>, -2)>>

\* [1, null]
TextArr == <<"[", "1", ",", " ", "n", "u", "l", "l", "]">>
TokensArr == <<Token(<<"[", "1">>, -3), Token(<<",", " ", "n", "u">>, -4), Token(<<"l", "l", "]">>, -6)>>

\* {"value":7,"logprob":-2}: a document whose own keys are those of a leaf record
TextVL ==
    <<"{", Q>> \o KValue \o <<Q, ":", "7", ",", Q>> \o KLogprob \o <<Q, ":", "-", "2", "}">>
TokensVL ==
    <<Token(<<"{", Q>> \o KValue \o <<Q, ":">>, -8), Token(<<"7", ",">>, -9),
      Token(<<Q>> \o KLogprob \o <<Q, ":", "-">>, -11), Token(<<"2", "}">>, -12)>>

\* ------------------------------------------------------- response shapes
MISSING_LOGPROBS_MESSAGE == "The 'logprobs' field is missing"

\* A choice of a ChatCompletion.  logprobs is "none" (choice.logprobs is
\* None), "content_none" (choice.logprobs.content is None) or "present"
\* (tokens is choice.logprobs.content).
Choice(content_none, content, logprobs, tokens) ==
    [content_none |-> content_none, content |-> content,
     logprobs |-> logprobs, tokens |-> tokens]

\* A content block of a ParsedResponseOutputMessage: an output-text block
\* (has the attributes text and logprobs) or a refusal block (has neither).
Block(is_text, text, logprobs_none, logprobs) ==
    [is_text |-> is_text, text |-> text,
     logprobs_none |-> logprobs_none, logprobs |-> logprobs]

\* An item of ParsedResponse.output.
Item(is_message, content_none, content) ==
    [is_message |-> is_message, content_none |-> content_none, content |-> content]

Response(shape, choices, output) ==
    [shape |-> shape, choices |-> choices, output |-> output]

NoResponse == Response("None", <<>>, <<>>)

\* ----------------------------------------------------------- input sets
SeqsUpTo(S, n) == UNION {[1..k -> S] : k \in 0..n}

ChoiceSet ==
    { Choice(TRUE, <<>>, "none", <<>>),
      Choice(TRUE, <<>>, "present", TokensAB),
      Choice(TRUE, <<>>, "present", <<>>),
      Choice(FALSE, <<>>, "present", <<>>),
      Choice(FALSE, <<>>, "content_none", <<>>),
      Choice(FALSE, TextKV, "present", TokensKV),
      Choice(FALSE, TextKV, "none", <<>>),
      Choice(FALSE, TextKV, "present", <<>>),
      Choice(FALSE, TextAB, "present", TokensAB),
      Choice(FALSE, TextVL, "present", TokensVL) }

BlockSet ==
    { Block(FALSE, <<>>, TRUE, <<>>),
      Block(TRUE, TextAB, FALSE, TokensAB),
      Block(TRUE, TextArr, FALSE, TokensArr),
      Block(TRUE, TextAB, TRUE, <<>>),
      Block(TRUE, TextAB, FALSE, <<>>) }

\* Items holding exactly b content blocks.
ItemsWith(b) ==
    {Item(TRUE, FALSE, c) : c \in [1..b -> BlockSet]}
    \cup (IF b = 0 THEN {Item(FALSE, FALSE, <<>>), Item(TRUE, TRUE, <<>>)} ELSE {})

\* Outputs of exactly n items holding at most b content blocks in all.
RECURSIVE OutputsOf(_, _)
OutputsOf(n, b) ==
    IF n = 0 THEN {<<>>}
    ELSE UNION {{Append(o, it) : o \in OutputsOf(n - 1, b - k), it \in ItemsWith(k)} : k \in 0..b}

ChatResponses ==
    {Response("ChatCompletion", c, <<>>) : c \in SeqsUpTo(ChoiceSet, MaxChoices)}
ParsedResponses ==
    {Response("ParsedResponse", <<>>, o) : o \in UNION {OutputsOf(n, MaxBlocks) : n \in 0..MaxOutputs}}
OtherResponses ==
    {Response("Other", c, <<>>) :
        c \in SeqsUpTo({Choice(FALSE, TextKV, "present", TokensKV)}, 1)}

TokenTexts == {[q \in 1..n |-> "a"] : n \in 0..MaxTokenLen}
TokenSeqs == SeqsUpTo({Token(t, -1) : t \in TokenTexts}, MaxTokens)

\* ------------------------------------------ map_characters_to_token_indices
\* Variants of the loop body with a slip: the index recorded one too high,
\* and the run put in front of the list instead of behind it.
ExtendIndices_OffByOne(token_indices, token_idx, token_data) ==
    token_indices \o [q \in 1..Len(token_data.token) |-> token_idx + 1]

ExtendIndices_Prepend(token_indices, token_idx, token_data) ==
    [q \in 1..Len(token_data.token) |-> token_idx] \o token_indices

\* One iteration of the loop: token_indices.extend([token_idx] * len(token)).
ExtendIndices(token_indices, token_idx, token_data) ==
    token_indices \o [q \in 1..Len(token_data.token) |-> token_idx]

RECURSIVE MapFrom(_, _, _)
MapFrom(tokens, token_idx, token_indices) ==
    IF token_idx >= Len(tokens) THEN token_indices
    ELSE MapFrom(tokens, token_idx + 1,
                 ExtendIndices(token_indices, token_idx, tokens[token_idx + 1]))

map_characters_to_token_indices(extracted_data_token) ==
    MapFrom(extracted_data_token, 0, <<>>)

\* ------------------------------------------------------------- results
NoResult ==
    [kind |-> "none", error |-> "", message |-> "", value |-> NoResponse, log_probs |-> <<>>]
Raised(error, message) ==
    [kind |-> "raised", error |-> error, message |-> message,
     value |-> NoResponse, log_probs |-> <<>>]
\* Variant that wraps a fresh, empty response instead of the one passed in.
ResponseWithLogProbs_Fresh(value, log_probs) ==
    [kind |-> "returned", error |-> "", message |-> "",
     value |-> [value EXCEPT !.choices = <<>>, !.output = <<>>], log_probs |-> log_probs]

ResponseWithLogProbs(value, log_probs) ==
    [kind |-> "returned", error |-> "", message |-> "", value |-> value, log_probs |-> log_probs]
MissingLogprobs == Raised("AttributeError", MISSING_LOGPROBS_MESSAGE)
MalformedDocument == Raised("MalformedDocument", "")
UnsupportedType == Raised("NotImplementedError", "Unsupported response type")

\* Outcome of one loop body: next is "continue" or "raise".
Continue(data) == [next |-> "continue", data |-> data, raised |-> NoResult]
Raise(r) == [next |-> "raise", data |-> <<>>, raised |-> r]

\* ------------------------------------------------- add_logprobs dispatch
\* Variant without the base implementation: any other type is handled as a
\* ChatCompletion.
Dispatch_Fallback(shape) ==
    IF shape = "ParsedResponse" THEN "parsed_loop" ELSE "chat_loop"

Dispatch(shape) ==
    IF shape = "ChatCompletion" THEN "chat_loop"
    ELSE IF shape = "ParsedResponse" THEN "parsed_loop"
    ELSE "unsupported"

\* --------------------------------------- add_logprobs(ChatCompletion) body
ChatHasLogprobs(choice) ==
    choice.logprobs = "present" /\ Len(choice.tokens) > 0

ChatBody(choice, logprobs_data) ==
    IF ChatHasLogprobs(choice)
    THEN IF choice.content_none THEN Continue(logprobs_data)
         ELSE LET logprobs_list == choice.tokens
                  token_indices_ == map_characters_to_token_indices(logprobs_list)
                  json_dict == extract_json_data(choice.content, logprobs_list, token_indices_)
              IN  IF json_dict.ok THEN Continue(Append(logprobs_data, json_dict.v))
                  ELSE Raise(MalformedDocument)
    ELSE Raise(MissingLogprobs)

\* --------------------------------------- add_logprobs(ParsedResponse) body
SkipsOutput(output_message) ==
    ~output_message.is_message \/ output_message.content_none

BlockHasLogprobs(content_block) ==
    ~content_block.logprobs_none /\ Len(content_block.logprobs) > 0

\* Variant that inserts the new entry at the front of logprobs_data.
BlockBody_Prepend(content_block, logprobs_data) ==
    IF content_block.is_text
    THEN IF ~BlockHasLogprobs(content_block) THEN Raise(MissingLogprobs)
         ELSE LET logprobs_list == content_block.logprobs
                  token_indices_ == map_characters_to_token_indices(logprobs_list)
                  json_dict == extract_json_data(content_block.text, logprobs_list, token_indices_)
              IN  IF json_dict.ok THEN Continue(<<json_dict.v>> \o logprobs_data)
                  ELSE Raise(MalformedDocument)
    ELSE Continue(logprobs_data)

BlockBody(content_block, logprobs_data) ==
    IF content_block.is_text
    THEN IF ~BlockHasLogprobs(content_block) THEN Raise(MissingLogprobs)
         ELSE LET logprobs_list == content_block.logprobs
                  token_indices_ == map_characters_to_token_indices(logprobs_list)
                  json_dict == extract_json_data(content_block.text, logprobs_list, token_indices_)
              IN  IF json_dict.ok THEN Continue(Append(logprobs_data, json_dict.v))
                  ELSE Raise(MalformedDocument)
    ELSE Continue(logprobs_data)

\* ------------------------------------------------ add_logprobs_inline body
\* Variant that does not test choice.logprobs.content against None.
InlineHasLogprobs_NoContentTest(choice) == choice.logprobs # "none"

InlineHasLogprobs(choice) == choice.logprobs = "present"

\* Variant that calls the sidecar extractor.
InlineContent_Sidecar(choice) ==
    LET logprobs_list == choice.tokens
        token_indices_ == map_characters_to_token_indices(logprobs_list)
    IN  IF choice.content # <<>>
        THEN LET json_dict == extract_json_data(choice.content, logprobs_list, token_indices_)
             IN  [ok |-> json_dict.ok, text |-> Dumps(json_dict.v)]
        ELSE [ok |-> TRUE, text |-> Dumps(JObj(<<>>))]

\* json.dumps(json_dict) of lines 167-172; ok is FALSE when the text of the
\* choice does not parse.
InlineContent(choice) ==
    LET logprobs_list == choice.tokens
        token_indices_ == map_characters_to_token_indices(logprobs_list)
    IN  IF choice.content # <<>>
        THEN LET json_dict == extract_json_data_inline(choice.content, logprobs_list, token_indices_)
             IN  [ok |-> json_dict.ok, text |-> Dumps(json_dict.v)]
        ELSE [ok |-> TRUE, text |-> Dumps(JObj(<<>>))]

\* ------------------------------------------------------------ the program
VARIABLES
    entry,                 \* the public function that is called
    response,              \* the response object the caller passed
    response0,             \* the response as it was when the call was made
    pc,                    \* position in the called function
    i,                     \* choices / output items iterated so far
    j,                     \* content blocks of the current item iterated so far
    extracted_data_token,  \* argument of map_characters_to_token_indices
    token_idx,             \* tokens iterated so far by its loop
    token_indices,         \* its list under construction
    logprobs_data,         \* the local list of add_logprobs
    result                 \* what the call returned or raised

vars ==
    <<entry, response, response0, pc, i, j, extracted_data_token,
      token_idx, token_indices, logprobs_data, result>>

Returned(value) ==
    [kind |-> "returned", error |-> "", message |-> "", value |-> value, log_probs |-> <<>>]

Init ==
    /\ \/ /\ entry = "add_logprobs"
          /\ response \in ChatResponses \cup ParsedResponses \cup OtherResponses
          /\ extracted_data_token = <<>>
       \/ /\ entry = "add_logprobs_inline"
          /\ response \in ChatResponses
          /\ extracted_data_token = <<>>
       \/ /\ entry = "map_characters_to_token_indices"
          /\ response = NoResponse
          /\ extracted_data_token \in TokenSeqs
    /\ response0 = response
    /\ pc = "call"
    /\ i = 0
    /\ j = 0
    /\ token_idx = 0
    /\ token_indices = <<>>
    /\ logprobs_data = <<>>
    /\ result = NoResult

\* add_logprobs, base implementation (lines 64-70)
AddLogprobsUnsupported ==
    /\ pc = "call"
    /\ entry = "add_logprobs"
    /\ Dispatch(response.shape) = "unsupported"
    /\ pc' = "done"
    /\ result' = UnsupportedType
    /\ UNCHANGED <<entry, response, response0, i, j, extracted_data_token,
                   token_idx, token_indices, logprobs_data>>

\* add_logprobs on a registered type: logprobs_data = [] (lines 92, 126)
AddLogprobsRegistered ==
    /\ pc = "call"
    /\ entry = "add_logprobs"
    /\ Dispatch(response.shape) # "unsupported"
    /\ pc' = Dispatch(response.shape)
    /\ logprobs_data' = <<>>
    /\ i' = 0
    /\ UNCHANGED <<entry, response, response0, j, extracted_data_token,
                   token_idx, token_indices, result>>

\* one iteration of the loop over choices (lines 93-103)
ChatIter ==
    /\ pc = "chat_loop"
    /\ i < Len(response.choices)
    /\ LET r == ChatBody(response.choices[i + 1], logprobs_data)
       IN  IF r.next = "raise"
           THEN /\ pc' = "done"
                /\ result' = r.raised
                /\ UNCHANGED <<i, logprobs_data>>
           ELSE /\ logprobs_data' = r.data
                /\ i' = i + 1
                /\ UNCHANGED <<pc, result>>
    /\ UNCHANGED <<entry, response, response0, j, extracted_data_token,
                   token_idx, token_indices>>

\* return ResponseWithLogProbs(...) (lines 105, 141)
SidecarReturn ==
    /\ \/ pc = "chat_loop" /\ i = Len(response.choices)
       \/ pc = "parsed_loop" /\ i = Len(response.output)
    /\ pc' = "done"
    /\ result' = ResponseWithLogProbs(response, logprobs_data)
    /\ UNCHANGED <<entry, response, response0, i, j, extracted_data_token,
                   token_idx, token_indices, logprobs_data>>

\* one iteration of the loop over output items (lines 127-131)
ParsedOutputIter ==
    /\ pc = "parsed_loop"
    /\ i < Len(response.output)
    /\ IF SkipsOutput(response.output[i + 1])
       THEN i' = i + 1 /\ UNCHANGED <<pc, j>>
       ELSE pc' = "parsed_blocks" /\ j' = 0 /\ UNCHANGED i
    /\ UNCHANGED <<entry, response, response0, extracted_data_token,
                   token_idx, token_indices, logprobs_data, result>>

\* one iteration of the loop over content blocks (lines 131-139)
ParsedBlockIter ==
    /\ pc = "parsed_blocks"
    /\ j < Len(response.output[i + 1].content)
    /\ LET r == BlockBody(response.output[i + 1].content[j + 1], logprobs_data)
       IN  IF r.next = "raise"
           THEN /\ pc' = "done"
                /\ result' = r.raised
                /\ UNCHANGED <<j, logprobs_data>>
           ELSE /\ logprobs_data' = r.data
                /\ j' = j + 1
                /\ UNCHANGED <<pc, result>>
    /\ UNCHANGED <<entry, response, response0, i, extracted_data_token,
                   token_idx, token_indices>>

\* the content blocks of the current item are exhausted (line 131)
ParsedBlocksEnd ==
    /\ pc = "parsed_blocks"
    /\ j = Len(response.output[i + 1].content)
    /\ pc' = "parsed_loop"
    /\ i' = i + 1
    /\ UNCHANGED <<entry, response, response0, j, extracted_data_token,
                   token_idx, token_indices, logprobs_data, result>>

\* add_logprobs_inline is entered (line 161)
AddLogprobsInline ==
    /\ pc = "call"
    /\ entry = "add_logprobs_inline"
    /\ pc' = "inline_loop"
    /\ i' = 0
    /\ UNCHANGED <<entry, response, response0, j, extracted_data_token,
                   token_idx, token_indices, logprobs_data, result>>

\* one iteration of its loop over choices (lines 161-174)
InlineIter ==
    /\ pc = "inline_loop"
    /\ i < Len(response.choices)
    /\ LET choice == response.choices[i + 1]
       IN  IF InlineHasLogprobs(choice)
           THEN IF choice.content_none
                THEN i' = i + 1 /\ UNCHANGED <<pc, response, result>>
                ELSE LET c == InlineContent(choice)
                     IN  IF c.ok
                         THEN /\ response' = [response EXCEPT !.choices[i + 1].content = c.text]
                              /\ i' = i + 1
                              /\ UNCHANGED <<pc, result>>
                         ELSE /\ pc' = "done"
                              /\ result' = MalformedDocument
                              /\ UNCHANGED <<i, response>>
           ELSE /\ pc' = "done"
                /\ result' = MissingLogprobs
                /\ UNCHANGED <<i, response>>
    /\ UNCHANGED <<entry, response0, j, extracted_data_token,
                   token_idx, token_indices, logprobs_data>>

\* return chat_completion_response (line 176)
InlineReturn ==
    /\ pc = "inline_loop"
    /\ i = Len(response.choices)
    /\ pc' = "done"
    /\ result' = Returned(response)
    /\ UNCHANGED <<entry, response, response0, i, j, extracted_data_token,
                   token_idx, token_indices, logprobs_data>>

\* map_characters_to_token_indices is entered: token_indices = [] (line 55)
MapCall ==
    /\ pc = "call"
    /\ entry = "map_characters_to_token_indices"
    /\ pc' = "map_loop"
    /\ token_idx' = 0
    /\ token_indices' = <<>>
    /\ UNCHANGED <<entry, response, response0, i, j, extracted_data_token,
                   logprobs_data, result>>

\* one iteration of its loop over tokens (lines 57-59)
MapIter ==
    /\ pc = "map_loop"
    /\ token_idx < Len(extracted_data_token)
    /\ token_indices' =
          ExtendIndices(token_indices, token_idx, extracted_data_token[token_idx + 1])
    /\ token_idx' = token_idx + 1
    /\ UNCHANGED <<entry, response, response0, pc, i, j, extracted_data_token,
                   logprobs_data, result>>

\* return token_indices (line 61)
MapReturn ==
    /\ pc = "map_loop"
    /\ token_idx = Len(extracted_data_token)
    /\ pc' = "done"
    /\ result' = Returned(NoResponse)
    /\ UNCHANGED <<entry, response, response0, i, j, extracted_data_token,
                   token_idx, token_indices, logprobs_data>>

Next ==
    \/ AddLogprobsUnsupported
    \/ AddLogprobsRegistered
    \/ ChatIter
    \/ SidecarReturn
    \/ ParsedOutputIter
    \/ ParsedBlockIter
    \/ ParsedBlocksEnd
    \/ AddLogprobsInline
    \/ InlineIter
    \/ InlineReturn
    \/ MapCall
    \/ MapIter
    \/ MapReturn

Spec == Init /\ [][Next]_vars

\* ================================================================ claims
\* The content units of a response in the adapter's iteration order: the
\* choices of a ChatCompletion; the output-text blocks of the message items
\* of a ParsedResponse, output order then content-block order.
Unit(has_text, text, absent, tokens) ==
    [has_text |-> has_text, text |-> text, absent |-> absent, tokens |-> tokens]

ChoiceUnit(choice) ==
    Unit(~choice.content_none, choice.content, choice.logprobs # "present", choice.tokens)

BlockUnit(block) == Unit(TRUE, block.text, block.logprobs_none, block.logprobs)

IsTextBlock(block) == block.is_text

ItemUnits(item) ==
    IF item.is_message /\ ~item.content_none
    THEN LET blocks == SelectSeq(item.content, IsTextBlock)
         IN  [x \in 1..Len(blocks) |-> BlockUnit(blocks[x])]
    ELSE <<>>

RECURSIVE OutputUnits(_, _)
OutputUnits(output, x) ==
    IF x > Len(output) THEN <<>>
    ELSE ItemUnits(output[x]) \o OutputUnits(output, x + 1)

Units(resp) ==
    IF resp.shape = "ParsedResponse" THEN OutputUnits(resp.output, 1)
    ELSE [x \in 1..Len(resp.choices) |-> ChoiceUnit(resp.choices[x])]

Supported(resp) == resp.shape \in {"ChatCompletion", "ParsedResponse"}
AdapterCall == entry \in {"add_logprobs", "add_logprobs_inline"} /\ Supported(response0)
HasText(u) == u.has_text
TextWithoutTokens(u) == u.has_text /\ u.absent
SomeUnit(resp, P(_)) == \E x \in 1..Len(Units(resp)) : P(Units(resp)[x])

\* The unit whose loop body ran last: the one that raised, when the call raised.
CurrentUnit ==
    IF response0.shape = "ParsedResponse"
    THEN BlockUnit(response0.output[i + 1].content[j + 1])
    ELSE ChoiceUnit(response0.choices[i + 1])

\* C1: on a supported response, a unit with text present and logprobs absent
\* makes the call end with the missing-logprobs error; no result is returned.
C1_MissingLogprobsRaised ==
    (AdapterCall /\ SomeUnit(response0, TextWithoutTokens))
        => /\ result.kind # "returned"
           /\ pc = "done" => result = MissingLogprobs

C1_Witness ==
    /\ pc = "done"
    /\ entry = "add_logprobs_inline"
    /\ result = MissingLogprobs
    /\ i = 1
    /\ TextWithoutTokens(CurrentUnit)

\* C2 (as claimed): the missing-logprobs error is raised only at a unit
\* whose logprobs collection is absent; a present, empty one never raises it.
C2_RaisedOnlyWhenAbsent ==
    (AdapterCall /\ pc = "done" /\ result = MissingLogprobs) => CurrentUnit.absent

\* C3 (as claimed): when the call fails, the response is as it was before
\* the call: no choice has had its content replaced.
C3_NoPartialOutput ==
    (AdapterCall /\ pc = "done" /\ result.kind = "raised") => response = response0

\* C4 (as claimed): a unit whose text is None never makes the call raise,
\* is left untouched, and adds no entry to log_probs.
C4_NullTextSkipped ==
    AdapterCall =>
        /\ (pc = "done" /\ result.kind = "raised") => CurrentUnit.has_text
        /\ \A x \in 1..Len(response0.choices) :
              response0.choices[x].content_none => response.choices[x] = response0.choices[x]
        /\ (entry = "add_logprobs" /\ result.kind = "returned")
              => Len(result.log_probs) = Len(SelectSeq(Units(response0), HasText))

\* C5: a successful add_logprobs returns one entry per unit with non-null
\* text, in iteration order, each computed from that unit's text and tokens.
AnnotationOf(u) ==
    extract_json_data(u.text, u.tokens, map_characters_to_token_indices(u.tokens)).v

ExpectedLogProbs(resp) ==
    LET us == SelectSeq(Units(resp), HasText)
    IN  [x \in 1..Len(us) |-> AnnotationOf(us[x])]

C5_OneEntryPerUnitInOrder ==
    (entry = "add_logprobs" /\ pc = "done" /\ result.kind = "returned")
        => result.log_probs = ExpectedLogProbs(response0)

C5_Witness ==
    /\ entry = "add_logprobs"
    /\ pc = "done"
    /\ result.kind = "returned"
    /\ response0.shape = "ParsedResponse"
    /\ Len(result.log_probs) = 2
    /\ result.log_probs[1] # result.log_probs[2]

\* C6: add_logprobs never alters the response, and on success the value
\* field of the result is the response that was passed in.
C6_SidecarLeavesResponse ==
    entry = "add_logprobs"
        => /\ response = response0
           /\ result.kind = "returned" => result.value = response0

C6_Witness ==
    /\ entry = "add_logprobs"
    /\ pc = "done"
    /\ result.kind = "returned"
    /\ response0.shape = "ChatCompletion"
    /\ Len(result.log_probs) = 2

\* Parsing the new content and projecting the value of every leaf record
\* gives the document parsed from the original content.
RoundTrips(before, after) ==
    LET orig == Loads(before)
        out == Loads(after)
    IN  orig.ok /\ out.ok /\ ProjectValues(out.v) = orig.v

InlineSucceeded ==
    entry = "add_logprobs_inline" /\ pc = "done" /\ result.kind = "returned"

\* C7 (as claimed): after a successful add_logprobs_inline every choice
\* with non-null text, the empty string included, round-trips.
C7_RoundTripAnyText ==
    InlineSucceeded =>
        \A x \in 1..Len(response0.choices) :
            ~response0.choices[x].content_none
                => RoundTrips(response0.choices[x].content, response.choices[x].content)

\* C7 (amended): every choice with non-null, non-empty text round-trips; a
\* choice with empty text gets the content {} .
C7_RoundTripNonEmptyText ==
    InlineSucceeded =>
        \A x \in 1..Len(response0.choices) :
            ~response0.choices[x].content_none
                => IF response0.choices[x].content # <<>>
                   THEN RoundTrips(response0.choices[x].content, response.choices[x].content)
                   ELSE response.choices[x].content = <<"{", "}">>

C7_Witness ==
    /\ InlineSucceeded
    /\ Len(response0.choices) = 2
    /\ response0.choices[1].content = TextVL
    /\ response0.choices[2].content = <<>>
    /\ ~response0.choices[2].content_none
    /\ response.choices[1].content # TextVL

\* C8: the returned list is as long as the token texts together, and the
\* positions of token k all hold k.
RECURSIVE LenBefore(_, _)
LenBefore(tokens, k) ==
    IF k = 0 THEN 0 ELSE LenBefore(tokens, k - 1) + Len(tokens[k].token)

MapReturned == entry = "map_characters_to_token_indices" /\ pc = "done"

C8_IndexLengthAndRanges ==
    MapReturned =>
        /\ Len(token_indices) = LenBefore(extracted_data_token, Len(extracted_data_token))
        /\ \A k \in 0..(Len(extracted_data_token) - 1) :
              \A p \in LenBefore(extracted_data_token, k)..
                       (LenBefore(extracted_data_token, k + 1) - 1) :
                  token_indices[p + 1] = k

C8_Witness ==
    /\ MapReturned
    /\ Len(extracted_data_token) = 3
    /\ Len(extracted_data_token[1].token) = 2
    /\ Len(extracted_data_token[2].token) = 0
    /\ Len(extracted_data_token[3].token) = 1
    /\ token_indices = <<0, 0, 2>>

\* C9: the list under construction is non-decreasing after every iteration,
\* and every token index in it occupies one contiguous run.
C9_MonotonicContiguous ==
    /\ \A p, q \in 1..Len(token_indices) : p <= q => token_indices[p] <= token_indices[q]
    /\ \A p, q \in 1..Len(token_indices) :
          (p <= q /\ token_indices[p] = token_indices[q])
              => \A m \in p..q : token_indices[m] = token_indices[p]

C9_Witness ==
    /\ pc = "map_loop"
    /\ token_idx = 2
    /\ token_idx < Len(extracted_data_token)
    /\ token_indices = <<0, 0, 1>>

\* C10: add_logprobs on an unsupported shape raises the unsupported-type
\* error at once: no unit is processed and nothing is returned.
C10_UnsupportedRaisesAtOnce ==
    (entry = "add_logprobs" /\ ~Supported(response0))
        => /\ pc \in {"call", "done"}
           /\ pc = "done" => result = UnsupportedType
           /\ result.kind # "returned"
           /\ i = 0
           /\ logprobs_data = <<>>

C10_Witness ==
    /\ entry = "add_logprobs"
    /\ response0.shape = "Other"
    /\ Len(response0.choices) = 1
    /\ pc = "done"
    /\ result = UnsupportedType

====
